---- MODULE Spec2Model ----
(***************************************************************************)
(* Model of analysis/poisson_binomial.py: the exact Poisson binomial PMF   *)
(* (compute_pmf), its moments (compute_exp_std_skewness) and the refined   *)
(* normal approximation (compute_pmf_approximation).                       *)
(*                                                                         *)
(* Numbers.  The code computes in double floats.  The model computes in    *)
(* exact arithmetic:                                                       *)
(*   - a trial probability is a/Denom, a an integer (a < 0 or a > Denom is *)
(*     an out-of-range probability);                                       *)
(*   - the running vector of compute_pmf after i trials holds numerators   *)
(*     over Denom^i;                                                       *)
(*   - mean, sigma and skewness are rationals [num, den] (den > 0), or the *)
(*     float specials NaN / +-inf, or a surd when a square root is         *)
(*     irrational;                                                         *)
(*   - norm.cdf and norm.pdf are tabulated in units of 1/SCALE at the      *)
(*     standardized arguments k/4; the approximation's entries are in      *)
(*     units of 1/SCALE.                                                   *)
(* Rounding error of the floating-point operations is not modelled.        *)
(***************************************************************************)
EXTENDS Integers, Sequences, FiniteSets, TLC

\* ---------------------------------------------------------------- bounds
MaxLen == 3        \* longest sequence of trial probabilities
Denom == 4         \* trial probabilities are multiples of 1/Denom
MaxMean4 == 32     \* direct calls of the approximation: mean in -8/4 .. MaxMean4/4
MaxN == 5          \* direct calls of the approximation: n in -2 .. MaxN

\* the 8 of "8 * sigma"
SigmaWindow == 8

\* resolution of the tabulated normal cdf / pdf values
SCALE == 10 ^ 6

VARIABLES pc, probabilities, i, poisson_bin_probs, pmf, moments, args, approx

vars == <<pc, probabilities, i, poisson_bin_probs, pmf, moments, args, approx>>

\* -------------------------------------------------------------- numbers
Rat(n, d) == [kind |-> "rat", num |-> n, den |-> d]
NaN == [kind |-> "nan"]
Inf(sign) == [kind |-> "inf", sign |-> sign]
\* sqrt(radicand) / den, for a radicand that is no perfect square
Surd(radicand, d) == [kind |-> "surd", radicand |-> radicand, den |-> d]
\* num / radicand^(3/2)
SurdQuotient(n, radicand) == [kind |-> "surdq", num |-> n, radicand |-> radicand]

None == [kind |-> "none"]

Max(a, b) == IF a >= b THEN a ELSE b
Min(a, b) == IF a <= b THEN a ELSE b
Abs(a) == IF a < 0 THEN -a ELSE a

RECURSIVE Pow(_, _)
Pow(b, e) == IF e = 0 THEN 1 ELSE b * Pow(b, e - 1)

RECURSIVE SeqSum(_)
SeqSum(s) == IF Len(s) = 0 THEN 0 ELSE s[1] + SeqSum(Tail(s))

\* floor(num / den), den > 0
Floor(num, den) == num \div den

\* round half to even of num / den, den > 0 (Python's round and np.round)
Round(num, den) ==
  LET f == num \div den
      r == num - f * den
  IN  IF 2 * r < den THEN f
      ELSE IF 2 * r > den THEN f + 1
      ELSE IF f % 2 = 0 THEN f ELSE f + 1

\* integer square root, and whether v is a perfect square
ISqrt(v) == CHOOSE r \in 0..v : r * r <= v /\ (r + 1) * (r + 1) > v
IsSquare(v) == v >= 0 /\ ISqrt(v) * ISqrt(v) = v

\* ------------------------------------------------------------------ PMF
\* the dataclass PMF; scale is the unit of the entries (entry / scale is the
\* probability)
PMF(start, probs, scale) == [start |-> start, probabilities |-> probs, scale |-> scale]

\* ---------------------------------------------------------- compute_pmf
np_zeros(n) == [j \in 1..n |-> 0]

\* the iteration with p and 1 - p exchanged
next_poisson_bin_probs_swapped(cur, p) ==
  [j \in 1..(Len(cur) + 1) |->
      (IF j <= Len(cur) THEN cur[j] * p ELSE 0)
      + (IF j >= 2 THEN cur[j - 1] * (Denom - p) ELSE 0)]

\* the iteration with next[1:] = cur * p in place of next[1:] += cur * p
next_poisson_bin_probs_overwriting(cur, p) ==
  [j \in 1..(Len(cur) + 1) |->
      IF j >= 2 THEN cur[j - 1] * p ELSE cur[j] * (Denom - p)]

\* one iteration of the loop of compute_pmf, for the trial probability
\* p / Denom: the numerators of the next vector (over Denom^(i+1))
next_poisson_bin_probs(cur, p) ==
  LET zeros == np_zeros(Len(cur) + 1)
      \* next[:-1] = cur * (1 - p)
      first == [j \in 1..Len(zeros) |->
                  IF j <= Len(cur) THEN cur[j] * (Denom - p) ELSE zeros[j]]
      \* next[1:] += cur * p
  IN  [j \in 1..Len(zeros) |->
          IF j >= 2 THEN first[j] + cur[j - 1] * p ELSE first[j]]

\* ------------------------------------------------- compute_exp_std_skewness
RECURSIVE SumOfP(_)
SumOfP(ps) == IF Len(ps) = 0 THEN 0 ELSE ps[1] + SumOfP(Tail(ps))

\* numerator over Denom^2 of sum p * (1 - p)
RECURSIVE VarianceNum(_)
VarianceNum(ps) ==
  IF Len(ps) = 0 THEN 0
  ELSE ps[1] * (Denom - ps[1]) + VarianceNum(Tail(ps))

\* numerator over Denom^3 of sum p * (1 - p) * (1 - 2 * p)
RECURSIVE ThirdNum(_)
ThirdNum(ps) ==
  IF Len(ps) = 0 THEN 0
  ELSE ps[1] * (Denom - ps[1]) * (Denom - 2 * ps[1]) + ThirdNum(Tail(ps))

\* np.sqrt(v / Denom^2): NaN for a negative argument
np_sqrt(v) ==
  IF v < 0 THEN NaN
  ELSE IF IsSquare(v) THEN Rat(ISqrt(v), Denom)
  ELSE Surd(v, Denom)

\* (t / Denom^3) / std ** 3 in float arithmetic: 0/0 is NaN, x/0 is +-inf
skewness_of(t, std) ==
  IF std.kind = "nan" THEN NaN
  ELSE IF std.kind = "surd" THEN SurdQuotient(t, std.radicand)
  ELSE IF std.num = 0
       THEN (IF t = 0 THEN NaN ELSE Inf(IF t > 0 THEN 1 ELSE -1))
  ELSE Rat(t, std.num * std.num * std.num)

\* the moments with exp = np.mean(probabilities)
compute_exp_std_skewness_averaging(ps) ==
  LET std == np_sqrt(VarianceNum(ps))
  IN  [exp |-> Rat(SumOfP(ps), Denom * Max(1, Len(ps))), std |-> std,
       skewness |-> skewness_of(ThirdNum(ps), std)]

\* the moments with std = sqrt(sum p) (the factor 1 - p forgotten)
compute_exp_std_skewness_no_complement(ps) ==
  LET std == np_sqrt(SumOfP(ps) * Denom)
  IN  [exp |-> Rat(SumOfP(ps), Denom), std |-> std,
       skewness |-> skewness_of(ThirdNum(ps), std)]

compute_exp_std_skewness(ps) ==
  LET exp == Rat(SumOfP(ps), Denom)
      std == np_sqrt(VarianceNum(ps))
      skewness == skewness_of(ThirdNum(ps), std)
  IN  [exp |-> exp, std |-> std, skewness |-> skewness]

\* ------------------------------------------------ compute_pmf_approximation
\* scipy.stats.norm.cdf(k / 4) * SCALE for k = 0, 1, ..; 1 beyond the table
NormCdfTable ==
  <<500000, 598706, 691462, 773373, 841345, 894350, 933193, 959941, 977250,
    987776, 993790, 997020, 998650, 999423, 999767, 999912, 999968, 999989,
    999997, 999999, 1000000>>

\* scipy.stats.norm.pdf(k / 4) * SCALE for k = 0, 1, ..; 0 beyond the table
NormPdfTable ==
  <<398942, 386668, 352065, 301137, 241971, 182649, 129518, 86277, 53991,
    31740, 17528, 9094, 4432, 2029, 873, 353, 134, 48, 16, 5, 1>>

\* norm.cdf and norm.pdf at the argument zq / 4
norm_cdf(zq) ==
  LET upper == IF Abs(zq) < Len(NormCdfTable) THEN NormCdfTable[Abs(zq) + 1] ELSE SCALE
  IN  IF zq >= 0 THEN upper ELSE SCALE - upper

norm_pdf(zq) ==
  IF Abs(zq) < Len(NormPdfTable) THEN NormPdfTable[Abs(zq) + 1] ELSE 0

\* G = lambda x: norm.cdf(x) + skewness * (1 - x * x) * norm.pdf(x) / 6,
\* at x = zq / 4, in units of 1 / SCALE
\* (skewness is a rational here: the moments give NaN or inf only with std = 0)
G(zq, skewness) ==
  norm_cdf(zq) + (skewness.num * (16 - zq * zq) * norm_pdf(zq)) \div (96 * skewness.den)

\* (x + 0.5 - mean) / sigma in quarters, rounded to the nearest quarter
\* (the arguments the tables hold)
StdArg(x, mean, sigma) ==
  Round(4 * ((2 * x + 1) * mean.den - 2 * mean.num) * sigma.den,
        2 * mean.den * sigma.num)

\* arange with b included
np_arange_inclusive(a, b) == [k \in 1..(IF b >= a THEN b - a + 1 ELSE 0) |-> a + k - 1]

\* np.arange(a, b), np.clip(s, lo, hi) and np.diff(s) on sequences
np_arange(a, b) == [k \in 1..(IF b > a THEN b - a ELSE 0) |-> a + k - 1]

np_clip(s, lo, hi) ==
  [k \in 1..Len(s) |-> IF s[k] < lo THEN lo ELSE IF s[k] > hi THEN hi ELSE s[k]]

np_diff(s) == [k \in 1..(IF Len(s) > 0 THEN Len(s) - 1 ELSE 0) |-> s[k + 1] - s[k]]

\* start = max(0, int(np.floor(mean - 8 * sigma)))
approx_start(mean, sigma) ==
  Max(0, Floor(mean.num * sigma.den - SigmaWindow * sigma.num * mean.den,
               mean.den * sigma.den))

\* end without the min(n, ..)
approx_end_unclipped(mean, sigma, n) ==
  Round(mean.num * sigma.den + SigmaWindow * sigma.num * mean.den,
        mean.den * sigma.den)

\* end = min(n, int(np.round(mean + 8 * sigma)))
approx_end(mean, sigma, n) ==
  Min(n, Round(mean.num * sigma.den + SigmaWindow * sigma.num * mean.den,
               mean.den * sigma.den))

\* the clipped values of G at the points of xs, in units of 1 / SCALE
cdf_values(xs, mean, sigma, skewness) ==
  np_clip([k \in 1..Len(xs) |-> G(StdArg(xs[k], mean, sigma), skewness)],
          0, SCALE)

\* the approximation with int(mean) in place of int(round(mean))
compute_pmf_approximation_truncating(mean, sigma, skewness, n) ==
  IF sigma.num = 0
  THEN [pmf |-> PMF(IF mean.num >= 0 THEN mean.num \div mean.den
                    ELSE -((-mean.num) \div mean.den), <<1>>, 1),
        G_evaluated |-> FALSE]
  ELSE LET start == approx_start(mean, sigma)
           end == approx_end(mean, sigma, n)
           xs == np_arange(start - 1, end + 1)
       IN  [pmf |-> PMF(start, np_diff(cdf_values(xs, mean, sigma, skewness)), SCALE),
            G_evaluated |-> TRUE]

\* the result, and whether G was evaluated on the way
compute_pmf_approximation(mean, sigma, skewness, n) ==
  IF sigma.num = 0
  THEN [pmf |-> PMF(Round(mean.num, mean.den), <<1>>, 1), G_evaluated |-> FALSE]
  ELSE LET start == approx_start(mean, sigma)
           end == approx_end(mean, sigma, n)
           xs == np_arange(start - 1, end + 1)
       IN  [pmf |-> PMF(start, np_diff(cdf_values(xs, mean, sigma, skewness)), SCALE),
            G_evaluated |-> TRUE]

\* --------------------------------------------------------------- inputs
\* trial probabilities a / Denom, one step outside [0, 1] included
ProbValues == (-1)..(Denom + 1)

RECURSIVE SeqsUpTo(_, _)
SeqsUpTo(S, n) ==
  IF n = 0 THEN {<<>>}
  ELSE LET shorter == SeqsUpTo(S, n - 1)
       IN  shorter \cup {Append(s, x) : s \in {t \in shorter : Len(t) = n - 1}, x \in S}

ProbSeqs == SeqsUpTo(ProbValues, MaxLen)

\* direct calls of the approximation
MeanValues == {Rat(m, 4) : m \in (-8)..MaxMean4}
SigmaValues == {Rat(0, 1), Rat(1, 4), Rat(1, 2), Rat(1, 1)}
SkewnessValues == {Rat(-6, 1), Rat(-1, 1), Rat(0, 1), Rat(1, 2), Rat(6, 1)}
NValues == (-2)..MaxN

\* -------------------------------------------------------------- actions
Init ==
  /\ pc = "idle"
  /\ probabilities = <<>>
  /\ i = 0
  /\ poisson_bin_probs = <<>>
  /\ pmf = None
  /\ moments = None
  /\ args = None
  /\ approx = None

\* compute_pmf is entered: poisson_bin_probs = np.array([1])
compute_pmf_enter ==
  /\ pc = "idle"
  /\ \E ps \in ProbSeqs : probabilities' = ps
  /\ poisson_bin_probs' = <<1>>
  /\ i' = 0
  /\ pc' = "pmf_loop"
  /\ pmf' = None /\ moments' = None /\ args' = None /\ approx' = None

\* for p in probabilities: one iteration
compute_pmf_iterate ==
  /\ pc = "pmf_loop"
  /\ i < Len(probabilities)
  /\ poisson_bin_probs' = next_poisson_bin_probs(poisson_bin_probs, probabilities[i + 1])
  /\ i' = i + 1
  /\ UNCHANGED <<pc, probabilities, pmf, moments, args, approx>>

\* return PMF(0, poisson_bin_probs)
compute_pmf_return ==
  /\ pc = "pmf_loop"
  /\ i = Len(probabilities)
  /\ pmf' = PMF(0, poisson_bin_probs, Pow(Denom, i))
  /\ pc' = "pmf_done"
  /\ UNCHANGED <<probabilities, i, poisson_bin_probs, moments, args, approx>>

\* the caller computes the moments of the same sequence
compute_exp_std_skewness_call ==
  /\ pc = "pmf_done"
  /\ moments' = compute_exp_std_skewness(probabilities)
  /\ pc' = "moments_done"
  /\ UNCHANGED <<probabilities, i, poisson_bin_probs, pmf, args, approx>>

\* the caller passes the moments on to the approximation, with n the number
\* of trials (a std the model holds as a rational; a surd or NaN std is not
\* followed further)
approximation_of_moments ==
  /\ pc = "moments_done"
  /\ moments.std.kind = "rat"
  /\ args' = [mean |-> moments.exp, sigma |-> moments.std,
              skewness |-> moments.skewness, n |-> Len(probabilities)]
  /\ approx' = compute_pmf_approximation(moments.exp, moments.std, moments.skewness,
                                         Len(probabilities))
  /\ pc' = "approx_done"
  /\ UNCHANGED <<probabilities, i, poisson_bin_probs, pmf, moments>>

\* a direct call of compute_pmf_approximation
compute_pmf_approximation_call ==
  /\ pc = "idle"
  /\ \E mean \in MeanValues, sigma \in SigmaValues, skewness \in SkewnessValues,
        n \in NValues :
       /\ args' = [mean |-> mean, sigma |-> sigma, skewness |-> skewness, n |-> n]
       /\ approx' = compute_pmf_approximation(mean, sigma, skewness, n)
  /\ pc' = "approx_done"
  /\ probabilities' = <<>>
  /\ i' = 0
  /\ poisson_bin_probs' = <<>>
  /\ pmf' = None
  /\ moments' = None

Next ==
  \/ compute_pmf_enter
  \/ compute_pmf_iterate
  \/ compute_pmf_return
  \/ compute_exp_std_skewness_call
  \/ approximation_of_moments
  \/ compute_pmf_approximation_call

Spec == Init /\ [][Next]_vars

\* ---------------------------------------------------------------- claims
InRange(ps) == \A k \in 1..Len(ps) : 0 <= ps[k] /\ ps[k] <= Denom

\* the weight of "exactly the trials of S succeed", over Denom^j for the
\* first j trials
RECURSIVE Weight(_, _, _)
Weight(ps, S, j) ==
  IF j = 0 THEN 1
  ELSE (IF j \in S THEN ps[j] ELSE Denom - ps[j]) * Weight(ps, S, j - 1)

RECURSIVE SumWeights(_, _)
SumWeights(ps, SS) ==
  IF SS = {} THEN 0
  ELSE LET S == CHOOSE T \in SS : TRUE
       IN  Weight(ps, S, Len(ps)) + SumWeights(ps, SS \ {S})

\* the probability (over Denom^n) that exactly k of the n trials succeed
ProbExactly(ps, k) ==
  SumWeights(ps, {S \in SUBSET (1..Len(ps)) : Cardinality(S) = k})

\* C1: for trial probabilities in [0, 1], entry k of the PMF compute_pmf
\* returns is the probability that exactly k trials succeed: the sum over the
\* k-element subsets S of prod_{i in S} p_i * prod_{j not in S} (1 - p_j).
C1_PmfIsPoissonBinomial ==
  (pmf # None /\ InRange(probabilities)) =>
    /\ pmf.scale = Pow(Denom, Len(probabilities))
    /\ DOMAIN pmf.probabilities = 1..(Len(probabilities) + 1)
    /\ \A k \in 0..Len(probabilities) :
         pmf.probabilities[k + 1] = ProbExactly(probabilities, k)

\* a returned PMF of three or more trials, one certain to fail, one certain to
\* succeed and one with a probability strictly between
C1_Witness ==
  /\ pmf # None
  /\ InRange(probabilities)
  /\ \E a, b, c \in 1..Len(probabilities) :
       /\ probabilities[a] = 0
       /\ probabilities[b] = Denom
       /\ probabilities[c] > 0 /\ probabilities[c] < Denom

\* C2: for trial probabilities in [0, 1], the running vector after i trials
\* has i + 1 entries, each in [0, 1], summing to 1; the returned PMF has
\* start 0 and n + 1 entries, each in [0, 1], summing to 1.
C2_PmfIsDistribution ==
  InRange(probabilities) =>
    /\ pc = "pmf_loop" =>
         /\ Len(poisson_bin_probs) = i + 1
         /\ SeqSum(poisson_bin_probs) = Pow(Denom, i)
         /\ \A k \in 1..Len(poisson_bin_probs) :
              0 <= poisson_bin_probs[k] /\ poisson_bin_probs[k] <= Pow(Denom, i)
    /\ pmf # None =>
         /\ pmf.start = 0
         /\ Len(pmf.probabilities) = Len(probabilities) + 1
         /\ SeqSum(pmf.probabilities) = pmf.scale
         /\ \A k \in 1..Len(pmf.probabilities) :
              0 <= pmf.probabilities[k] /\ pmf.probabilities[k] <= pmf.scale

\* the loop has run MaxLen times on probabilities that are not all 0 or 1
C2_Witness ==
  /\ pc = "pmf_loop"
  /\ i = MaxLen
  /\ InRange(probabilities)
  /\ \E k \in 1..Len(probabilities) : probabilities[k] \notin {0, Denom}

\* ---- the approximation
Called == args # None
SigmaPositive == args.sigma.num > 0

\* mean - 8 * sigma and mean + 8 * sigma as fractions with a common
\* denominator WindowDen
WindowDen == args.mean.den * args.sigma.den
WindowLow == args.mean.num * args.sigma.den - 8 * args.sigma.num * args.mean.den
WindowHigh == args.mean.num * args.sigma.den + 8 * args.sigma.num * args.mean.den

\* lower = max(0, floor(mean - 8 * sigma))
Lower ==
  LET f == CHOOSE f \in (-200)..200 :
             f * WindowDen <= WindowLow /\ WindowLow < (f + 1) * WindowDen
  IN  IF f > 0 THEN f ELSE 0

\* upper = min(n, round(mean + 8 * sigma)), the round to the nearest integer
\* and a tie to the even one
Upper ==
  LET r == CHOOSE r \in (-200)..200 :
             /\ 2 * Abs(r * WindowDen - WindowHigh) <= WindowDen
             /\ 2 * Abs(r * WindowDen - WindowHigh) = WindowDen => r % 2 = 0
  IN  IF r < args.n THEN r ELSE args.n

Entries == approx.pmf.probabilities

\* C3 as stated: with sigma > 0 the PMF has start = lower and exactly
\* upper - lower + 1 entries (stated here for the calls with n >= 0: it fails
\* among them, not only on a negative n).
C3_Original ==
  (Called /\ SigmaPositive /\ args.n >= 0) =>
    /\ approx.pmf.start = Lower
    /\ Len(Entries) = Upper - Lower + 1

\* C3, amended: with sigma > 0 the PMF has start = lower and
\* max(0, upper - lower + 1) entries (none when upper < lower).
C3_WindowOfApproximation ==
  (Called /\ SigmaPositive) =>
    /\ approx.pmf.start = Lower
    /\ Len(Entries) = Max(0, Upper - Lower + 1)

\* a window that starts above 0 and holds several outcomes
C3_Witness ==
  /\ Called /\ SigmaPositive
  /\ approx.pmf.start > 0
  /\ Len(Entries) >= 2

\* C4: with sigma = 0, whatever skewness and n, the result is the point mass
\* of probability 1 at round(mean), and G is never evaluated.
C4_DegenerateSigma ==
  (Called /\ args.sigma.num = 0) =>
    /\ Entries = <<1>>
    /\ approx.pmf.scale = 1
    /\ 2 * Abs(approx.pmf.start * args.mean.den - args.mean.num) <= args.mean.den
    /\ ~approx.G_evaluated

\* a direct call with sigma = 0, a mean that is no integer, a skewness that is
\* not 0
C4_Witness ==
  /\ Called /\ args.sigma.num = 0
  /\ args.mean.num % args.mean.den # 0
  /\ args.skewness.kind = "rat" /\ args.skewness.num # 0
  /\ Len(Entries) = 1

\* C5: with sigma > 0 every entry of the returned probabilities is in [0, 1],
\* for any skewness.
C5_EntriesAreProbabilities ==
  (Called /\ SigmaPositive) =>
    \A k \in 1..Len(Entries) : 0 <= Entries[k] /\ Entries[k] <= approx.pmf.scale

\* the clipped corrected cdf at x + 0.5
ClippedG(x) ==
  LET g == G(StdArg(x, args.mean, args.sigma), args.skewness)
  IN  IF g < 0 THEN 0 ELSE IF g > SCALE THEN SCALE ELSE g

\* C6: with sigma > 0 the entries sum to
\* clip(G((upper + 0.5 - mean) / sigma)) - clip(G((lower - 0.5 - mean) / sigma)),
\* and the sum never exceeds 1.
C6_SumTelescopes ==
  (Called /\ SigmaPositive) =>
    /\ SeqSum(Entries) = ClippedG(Upper) - ClippedG(Lower - 1)
    /\ SeqSum(Entries) <= approx.pmf.scale

\* the support [start, start + len - 1] of the returned PMF is not empty and
\* lies in [0, n]
SupportInRange ==
  /\ Len(Entries) >= 1
  /\ approx.pmf.start >= 0
  /\ approx.pmf.start + Len(Entries) - 1 <= args.n

MeanInRange ==
  /\ 0 <= args.mean.num
  /\ args.mean.num <= args.n * args.mean.den

\* C7 as stated: with n >= 0 and sigma >= 0, for every mean, the PMF has at
\* least one entry and its support is contained in [0, n].
C7_Original ==
  (Called /\ args.n >= 0 /\ args.sigma.num >= 0) => SupportInRange

\* C7, amended: with n >= 0, sigma >= 0 and 0 <= mean <= n, the PMF has at
\* least one entry and its support is contained in [0, n].
C7_SupportWithinZeroToN ==
  (Called /\ args.n >= 0 /\ args.sigma.num >= 0 /\ MeanInRange) => SupportInRange

\* a window cut at n, starting above 0
C7_Witness ==
  /\ Called /\ SigmaPositive /\ args.n >= 0 /\ MeanInRange
  /\ approx.pmf.start > 0
  /\ approx.pmf.start + Len(Entries) - 1 = args.n
  /\ Upper = args.n

\* C8: a trial probability outside [0, 1] or a negative n ends in an
\* invalid-input error: no PMF and no moments are returned for such inputs.
C8_InvalidInputsRejected ==
  /\ pmf # None => InRange(probabilities)
  /\ moments # None => InRange(probabilities)
  /\ approx # None => args.n >= 0

\* ---- the moments
AllZeroOrOne(ps) == \A k \in 1..Len(ps) : ps[k] \in {0, Denom}
NumberOfOnes(ps) == Cardinality({k \in 1..Len(ps) : ps[k] = Denom})

\* C9: for a sequence of variance 0 (every p_i is 0 or 1, the empty sequence
\* included) the moments are returned with std = 0 and skewness NaN, and the
\* approximation of these moments with n = len(sequence) is the point mass at
\* sum(p_i), the distribution compute_pmf returns.
C9_ZeroVariancePipeline ==
  (moments # None /\ AllZeroOrOne(probabilities)) =>
    /\ moments.std.kind = "rat" /\ moments.std.num = 0
    /\ moments.skewness = NaN
    /\ approx # None =>
         /\ Entries = <<1>>
         /\ approx.pmf.scale = 1
         /\ approx.pmf.start = NumberOfOnes(probabilities)
         /\ \A k \in 0..Len(probabilities) :
              pmf.probabilities[k + 1] =
                IF pmf.start + k = approx.pmf.start THEN pmf.scale ELSE 0

\* the moments of a sequence holding a 0 and a 1 were passed to the
\* approximation
C9_Witness ==
  /\ pc = "approx_done"
  /\ moments # None
  /\ AllZeroOrOne(probabilities)
  /\ \E a, b \in 1..Len(probabilities) :
       probabilities[a] = 0 /\ probabilities[b] = Denom

\* std squared
StdSquared(std) ==
  IF std.kind = "rat" THEN Rat(std.num * std.num, std.den * std.den)
  ELSE Rat(std.radicand, std.den * std.den)

RECURSIVE FirstMoment(_, _)
FirstMoment(P, k) ==
  IF k = 0 THEN 0 ELSE (k - 1) * P[k] + FirstMoment(P, k - 1)

\* sum over k of (k * den - num)^2 * P[k]
RECURSIVE SecondCentralMoment(_, _, _)
SecondCentralMoment(P, k, m) ==
  IF k = 0 THEN 0
  ELSE ((k - 1) * m.den - m.num) * ((k - 1) * m.den - m.num) * P[k]
       + SecondCentralMoment(P, k - 1, m)

\* sum of p * (1 - p) over the first k trials, over Denom^2
RECURSIVE SumPQ(_, _)
SumPQ(ps, k) ==
  IF k = 0 THEN 0 ELSE ps[k] * (Denom - ps[k]) + SumPQ(ps, k - 1)

\* C10: for trial probabilities in [0, 1], the mean of the exact PMF is the
\* mean of the moments (sum p_i), and the variance of the exact PMF is std^2
\* (sum p_i * (1 - p_i)).
C10_MomentsAgreeWithPmf ==
  (moments # None /\ pmf # None /\ InRange(probabilities)) =>
    LET P == pmf.probabilities
        m == moments.exp
        v == StdSquared(moments.std)
    IN  /\ FirstMoment(P, Len(P)) * m.den = m.num * pmf.scale
        /\ m.num * Denom = SeqSum(probabilities) * m.den
        /\ SecondCentralMoment(P, Len(P), m) * v.den = v.num * m.den * m.den * pmf.scale
        /\ v.num * Denom * Denom = SumPQ(probabilities, Len(probabilities)) * v.den

\* the moments of a sequence of two or more probabilities strictly between 0
\* and 1, not all the same
C10_Witness ==
  /\ moments # None /\ pmf # None
  /\ InRange(probabilities)
  /\ Len(probabilities) >= 2
  /\ \A k \in 1..Len(probabilities) : probabilities[k] \notin {0, Denom}
  /\ \E j, k \in 1..Len(probabilities) : probabilities[j] # probabilities[k]

====
